---------------------------- MODULE Spec2Model ----------------------------
(***************************************************************************)
(* Model of the text-to-SQL agent: the web shell (src/web/app.py with      *)
(* src/web/helpers.py) and the command-line shell (src/scripts/simple.py   *)
(* with src/scripts/helpers.py).                                           *)
(*                                                                         *)
(* A Python str is modelled as a sequence of one-character strings, so     *)
(* that strip, lower/upper, startswith, split, re.sub and re.search are    *)
(* computed character by character as the interpreter computes them.       *)
(***************************************************************************)
EXTENDS Integers, Sequences, FiniteSets, TLC

VARIABLES
    program,        \* which shell runs: "web", "cli", "both" (or "none")
    script,         \* the replies both shells are fed when they are compared
    engine,         \* src/web/app.py globals (lines 12-16); the client is set
    inspector,      \*   before the server starts (line 241)
    schema_data,
    current_db_url,
    req,            \* per shell: the request being served and what was shown
    fn_in,          \* SpecFn: the text handed to the function under test
    fn_env,         \* SpecFn: how the completion call or the database behaved
    fn_pc,          \* SpecFn: "input" | "synthesized" | "executed"
    fn_out,         \* SpecFn: what the function returned
    fn_db           \* SpecFn: statements sent to / connections opened on the database

web_globals == <<engine, inspector, schema_data, current_db_url>>
shell_vars == <<program, script, engine, inspector, schema_data, current_db_url, req>>
fn_vars == <<fn_in, fn_env, fn_pc, fn_out, fn_db>>
vars == <<program, script, engine, inspector, schema_data, current_db_url, req,
          fn_in, fn_env, fn_pc, fn_out, fn_db>>

(***************************************************************************)
(* Bounds of the model.                                                    *)
(***************************************************************************)
\* model replies are concatenations of at most MaxFrags fragments
MaxFrags == 3

(***************************************************************************)
(* Characters and the str methods the code uses.                           *)
(***************************************************************************)
UpperLetters == <<"A","B","C","D","E","F","G","H","I","J","K","L","M",
                  "N","O","P","Q","R","S","T","U","V","W","X","Y","Z">>
LowerLetters == <<"a","b","c","d","e","f","g","h","i","j","k","l","m",
                  "n","o","p","q","r","s","t","u","v","w","x","y","z">>

\* the characters str.strip() removes and the pattern \s matches
Whitespace == {" ", "\n", "\t", "\r"}

IsSpace(c) == c \in Whitespace

\* the letter long s, U+017F, the one character outside ASCII that upper()
\* and re.IGNORECASE take for a letter of SELECT (written as a token)
LONG_S == "LONG_S"

\* str.lower() on one character (the long s is lower case already)
LowerChar(c) ==
    IF \E i \in 1..26 : UpperLetters[i] = c
    THEN LowerLetters[CHOOSE i \in 1..26 : UpperLetters[i] = c]
    ELSE c

\* str.upper() on one character
UpperChar(c) ==
    IF \E i \in 1..26 : LowerLetters[i] = c
    THEN UpperLetters[CHOOSE i \in 1..26 : LowerLetters[i] = c]
    ELSE IF c = LONG_S THEN "S"
    ELSE c

\* the letter a pattern letter is compared with under re.IGNORECASE: two
\* characters match when they fold to the same one
FoldChar(c) == IF c = LONG_S THEN "s" ELSE LowerChar(c)

\* str.lower()
Lower(s) == [i \in 1..Len(s) |-> LowerChar(s[i])]

\* str.upper()
Upper(s) == [i \in 1..Len(s) |-> UpperChar(s[i])]

\* a text as re.IGNORECASE compares it
Fold(s) == [i \in 1..Len(s) |-> FoldChar(s[i])]

\* str.startswith(p)
StartsWith(s, p) == Len(s) >= Len(p) /\ SubSeq(s, 1, Len(p)) = p

\* s[i:] with a 1-based i
From(s, i) == SubSeq(s, i, Len(s))

\* str.strip(): drop the leading and the trailing whitespace
Strip(s) ==
    LET keep == {i \in 1..Len(s) : ~IsSpace(s[i])}
    IN  IF keep = {} THEN <<>>
        ELSE SubSeq(s, CHOOSE i \in keep : \A j \in keep : i <= j,
                       CHOOSE i \in keep : \A j \in keep : i >= j)

\* str.split('\n'): the lines of s, always at least one
RECURSIVE SplitFrom(_, _, _)
SplitFrom(s, i, cur) ==
    IF i > Len(s) THEN <<cur>>
    ELSE IF s[i] = "\n" THEN <<cur>> \o SplitFrom(s, i + 1, <<>>)
    ELSE SplitFrom(s, i + 1, Append(cur, s[i]))

SplitLines(s) == SplitFrom(s, 1, <<>>)

\* '\n'.join(lines[i:])
RECURSIVE JoinFrom(_, _)
JoinFrom(lines, i) ==
    IF i > Len(lines) THEN <<>>
    ELSE IF i = Len(lines) THEN lines[i]
    ELSE lines[i] \o <<"\n">> \o JoinFrom(lines, i + 1)

\* whether sub occurs in s (the in operator on str)
Contains(s, sub) ==
    \E i \in 1..(Len(s) - Len(sub) + 1) : SubSeq(s, i, i + Len(sub) - 1) = sub

(***************************************************************************)
(* Literals of the source.                                                 *)
(***************************************************************************)
SELECT_UPPER == <<"S","E","L","E","C","T">>
select_lower == <<"s","e","l","e","c","t">>
\* the backtick character (written as a token: the lexer has no backtick literal)
BT == "BACKTICK"
FENCE == <<BT, BT, BT>>
FENCE_SQL == <<BT, BT, BT, "s", "q", "l">>

\* the sentinel query of generate_sql_query
ERROR_QUERY ==
    <<"S","E","L","E","C","T"," ","'","E","r","r","o","r",":"," ","I","n","v",
      "a","l","i","d"," ","q","u","e","r","y"," ","g","e","n","e","r","a","t",
      "e","d","'"," ","a","s"," ","e","r","r","o","r","_","m","e","s","s","a",
      "g","e">>

\* the policy message of execute_select_query
SELECT_ONLY_MESSAGE ==
    <<"H","a","n","y","a"," ","q","u","e","r","y"," ","S","E","L","E","C","T",
      " ","y","a","n","g"," ","b","o","l","e","h"," ","d","i","e","k","s","e",
      "k","u","s","i",".">>

\* the no-rows message of execute_select_query
NO_RESULT_MESSAGE ==
    <<"Q","u","e","r","y"," ","b","e","r","h","a","s","i","l",","," ","t","a",
      "p","i"," ","t","i","d","a","k"," ","a","d","a"," ","h","a","s","i","l",
      ".">>

ERROR_PREFIX == <<"E","r","r","o","r",":"," ">>

\* message.content of a completion that carries no text (Python None)
NoneContent == <<"None">>

(***************************************************************************)
(* clean_sql: re.sub of the pattern FENCE_SQL|FENCE by "", ignoring case,   *)
(* then strip().                                                           *)
(***************************************************************************)
\* re.sub scans left to right; at each position the alternative FENCE_SQL is
\* tried before FENCE, and a match is dropped whole
RECURSIVE FenceSub(_, _)
FenceSub(s, i) ==
    IF i > Len(s) THEN <<>>
    ELSE IF i + 5 <= Len(s) /\ Fold(SubSeq(s, i, i + 5)) = FENCE_SQL
         THEN FenceSub(s, i + 6)
    ELSE IF i + 2 <= Len(s) /\ SubSeq(s, i, i + 2) = FENCE
         THEN FenceSub(s, i + 3)
    ELSE <<s[i]>> \o FenceSub(s, i + 1)

\* mutant: the pattern names the tagged fence only
RECURSIVE TaggedFenceSub(_, _)
TaggedFenceSub(s, i) ==
    IF i > Len(s) THEN <<>>
    ELSE IF i + 5 <= Len(s) /\ Fold(SubSeq(s, i, i + 5)) = FENCE_SQL
         THEN TaggedFenceSub(s, i + 6)
    ELSE <<s[i]>> \o TaggedFenceSub(s, i + 1)

clean_sql_tagged_only(generated_text) == Strip(TaggedFenceSub(generated_text, 1))

\* (the substituted text is bound once, then stripped)
clean_sql(generated_text) ==
    CHOOSE cleaned \in {Strip(t) : t \in {FenceSub(generated_text, 1)}} : TRUE


(***************************************************************************)
(* re.search(r'(SELECT\s+.*?)(?:;|\Z)', text, re.IGNORECASE | re.DOTALL)   *)
(***************************************************************************)
\* the literal SELECT at position i, ignoring case
SelectAt(s, i) ==
    i + 5 <= Len(s) /\ Fold(SubSeq(s, i, i + 5)) = select_lower

\* \s+ is greedy: the position after the whitespace run that starts at k
RECURSIVE SpaceRun(_, _)
SpaceRun(s, k) ==
    IF k <= Len(s) /\ IsSpace(s[k]) THEN SpaceRun(s, k + 1) ELSE k

\* mutant: the pattern ends at \Z only, so the span runs to the end of the text
LazyAny_ToEnd(s, k) == Len(s) + 1

\* .*? is lazy and, under DOTALL, takes any character: it grows one character
\* at a time until (?:;|\Z) matches, at a ';' or at the end of the text; the
\* result is the position where group 1 ends (exclusive)
RECURSIVE LazyAny(_, _)
LazyAny(s, k) ==
    IF k > Len(s) THEN k
    ELSE IF s[k] = ";" THEN k
    ELSE LazyAny(s, k + 1)

\* the match attempted at position i: 0 when the pattern does not match there,
\* else the position where group 1 ends (exclusive).  LazyAny always succeeds,
\* so \s+ never has to give a character back.
MatchAt(s, i) ==
    IF SelectAt(s, i) /\ i + 6 <= Len(s) /\ IsSpace(s[i + 6])
    THEN LazyAny(s, SpaceRun(s, i + 6))
    ELSE 0

\* re.search tries the positions from left to right and returns the first match
RECURSIVE SearchFrom(_, _)
SearchFrom(s, i) ==
    IF i > Len(s) THEN [found |-> FALSE, group1 |-> <<>>]
    ELSE IF MatchAt(s, i) # 0
         THEN [found |-> TRUE, group1 |-> SubSeq(s, i, MatchAt(s, i) - 1)]
    ELSE SearchFrom(s, i + 1)

select_pattern_search(s) == SearchFrom(s, 1)

(***************************************************************************)
(* generate_sql_query (src/web/helpers.py): the completion call and the    *)
(* extraction of one statement from the reply.                             *)
(*   response = [err |-> the completion call raised, content |-> text]     *)
(*   result   = [raised |-> RuntimeError raised, value |-> returned text]  *)
(***************************************************************************)
Raised == [raised |-> TRUE, value |-> <<>>]
Returned(v) == [raised |-> FALSE, value |-> v]

\* mutant: the line scan returns the rest of the text from the line it found
RECURSIVE LineScan_ReturnsRest(_, _)
LineScan_ReturnsRest(lines, i) ==
    IF i > Len(lines) THEN ERROR_QUERY
    ELSE IF StartsWith(Upper(Strip(lines[i])), SELECT_UPPER)
         THEN Strip(JoinFrom(lines, i))
    ELSE LineScan_ReturnsRest(lines, i + 1)

\* step 3: the first line whose stripped text starts with SELECT decides
RECURSIVE LineScan(_, _)
LineScan(lines, i) ==
    IF i > Len(lines) THEN ERROR_QUERY
    ELSE IF StartsWith(Upper(Strip(lines[i])), SELECT_UPPER)
         THEN LET select_match == select_pattern_search(JoinFrom(lines, i))
              IN  IF select_match.found
                  THEN Strip(select_match.group1)
                  ELSE Strip(lines[i])
    ELSE LineScan(lines, i + 1)

\* mutant: no sentinel; a reply without a match is returned as cleaned
ExtractSelect_NoSentinel(content) ==
    LET query_cleaned == clean_sql(Strip(content))
        match == select_pattern_search(query_cleaned)
    IN  IF match.found THEN Strip(match.group1) ELSE query_cleaned

\* lines 297-339: query -> query_cleaned -> the extracted statement
ExtractSelect(content) ==
    LET query == Strip(content)
        query_cleaned == clean_sql(query)
        match == select_pattern_search(query_cleaned)
    IN  IF match.found THEN Strip(match.group1)
        ELSE IF ~StartsWith(Upper(query_cleaned), SELECT_UPPER)
             THEN LineScan(SplitLines(query_cleaned), 1)
        ELSE query_cleaned

\* mutant: the reply is returned stripped, without extraction
generate_sql_query_unextracted(response) ==
    IF response.err \/ response.content = NoneContent
    THEN Raised
    ELSE Returned(Strip(response.content))

generate_sql_query(response) ==
    IF response.err \/ response.content = NoneContent
    THEN Raised     \* except Exception: raise RuntimeError
    ELSE Returned(ExtractSelect(response.content))

\* generate_sql_query of src/scripts/helpers.py: the reply, stripped
scripts_generate_sql_query(response) ==
    IF response.err \/ response.content = NoneContent
    THEN Raised
    ELSE Returned(Strip(response.content))


(***************************************************************************)
(* The inputs of the function-level specification: model replies built     *)
(* from the pieces the extraction reacts to, and the replies the           *)
(* documented scenarios name.                                              *)
(***************************************************************************)
Fragments ==
    { SELECT_UPPER, <<"s","e","l">>, <<"E","C","T">>, <<" ">>, <<"\n">>,
      <<";">>, FENCE, <<BT, BT, BT, "S", "Q", "L">>, <<BT>>, <<"x">>,
      <<LONG_S, "e", "l", "e", "c", "t">> }

RECURSIVE Concats(_)
Concats(n) ==
    IF n = 0 THEN {<<>>}
    ELSE LET shorter == Concats(n - 1)
         IN  shorter \cup {a \o f : a \in shorter, f \in Fragments}

\* "DROP TABLE users"
DROP_TABLE_USERS ==
    <<"D","R","O","P"," ","T","A","B","L","E"," ","u","s","e","r","s">>

\* the fenced reply: FENCE_SQL \n SELECT * FROM t; \n Explanation text \n FENCE
FENCED_REPLY ==
    FENCE_SQL \o <<"\n">> \o
    <<"S","E","L","E","C","T"," ","*"," ","F","R","O","M"," ","t",";","\n">> \o
    <<"E","x","p","l","a","n","a","t","i","o","n"," ","t","e","x","t","\n">> \o
    FENCE

\* "SELECT * FROM t"
SELECT_FROM_T ==
    <<"S","E","L","E","C","T"," ","*"," ","F","R","O","M"," ","t">>

\* "SELECT*FROM t;DROP TABLE t"
SELECT_THEN_DROP ==
    <<"S","E","L","E","C","T","*","F","R","O","M"," ","t",";","D","R","O",
      "P"," ","T","A","B","L","E"," ","t">>

\* "select 1" written with a long s
LONG_S_SELECT_ONE == <<LONG_S, "e", "l", "e", "c", "t", " ", "1">>

\* "x", a line break, "SELECT*;", a line break, "x"
SELECT_ON_SECOND_LINE ==
    <<"x", "\n", "S", "E", "L", "E", "C", "T", "*", ";", "\n", "x">>

NamedReplies ==
    {DROP_TABLE_USERS, FENCED_REPLY, SELECT_FROM_T, ERROR_QUERY, SELECT_THEN_DROP,
     LONG_S_SELECT_ONE, SELECT_ON_SECOND_LINE}

FnInputs == Concats(MaxFrags) \cup NamedReplies


(***************************************************************************)
(* The database as execute_select_query sees it.  One response says how    *)
(* the calls inside the with-block go for the statement at hand:           *)
(*   fail    = the call that raises: "connect" (engine.connect()),         *)
(*             "execute" (conn.execute), "fetchall" (result.fetchall()),   *)
(*             "DataFrame" (pd.DataFrame(rows, columns=...)), or "none"    *)
(*   error   = str(e) of the exception raised                              *)
(*   columns = result.keys(), rows = result.fetchall()                     *)
(***************************************************************************)
SYNTAX_ERROR == <<"s","y","n","t","a","x"," ","e","r","r","o","r">>
CONNECTION_REFUSED ==
    <<"c","o","n","n","e","c","t","i","o","n"," ","r","e","f","u","s","e","d">>
CURSOR_CLOSED == <<"c","u","r","s","o","r"," ","c","l","o","s","e","d">>
BAD_COLUMN == <<"b","a","d"," ","c","o","l","u","m","n">>

DbResults ==
    { [columns |-> <<"id", "name">>, rows |-> <<>>],
      [columns |-> <<"id", "name">>, rows |-> << <<"1", "ann">> >>],
      [columns |-> <<"name", "id">>, rows |-> << <<"bob", "2">>, <<"ann", "1">> >>] }

DbOk(r) == [fail |-> "none", error |-> <<>>, columns |-> r.columns, rows |-> r.rows]
DbFail(stage, e, r) ==
    [fail |-> stage, error |-> e, columns |-> r.columns, rows |-> r.rows]

DbResponses ==
    {DbOk(r) : r \in DbResults}
    \cup {DbFail("connect", CONNECTION_REFUSED, r) : r \in {x \in DbResults : x.rows = <<>>}}
    \cup {DbFail("execute", SYNTAX_ERROR, r) : r \in {x \in DbResults : x.rows = <<>>}}
    \cup {DbFail("fetchall", CURSOR_CLOSED, r) : r \in {x \in DbResults : x.rows = <<>>}}
    \cup {DbFail("DataFrame", BAD_COLUMN, r) : r \in {x \in DbResults : x.rows # <<>>}}

(***************************************************************************)
(* execute_select_query (both helpers.py, the same text).                  *)
(*   returns (success, result): result is a str (is_str) or a DataFrame    *)
(*   carrying columns and rows.                                            *)
(***************************************************************************)
ExecMessage(ok, msg) ==
    [success |-> ok, is_str |-> TRUE, text |-> msg, columns |-> <<>>, rows |-> <<>>]
\* mutant: the frame loses the first fetched row
ExecFrame_DropsFirst(cols, rs) ==
    [success |-> TRUE, is_str |-> FALSE, text |-> <<>>, columns |-> cols, rows |-> Tail(rs)]

ExecFrame(cols, rs) ==
    [success |-> TRUE, is_str |-> FALSE, text |-> <<>>, columns |-> cols, rows |-> rs]

\* mutant: the guard looks for select anywhere in the text, not at its start
PassesGuard_Contains(sql_query) == Contains(Lower(sql_query), select_lower)

\* line 463: the read-only guard
PassesGuard(sql_query) == StartsWith(Lower(sql_query), select_lower)

\* mutant: the except branch returns the prefix without str(e)
execute_select_query_no_text(sql_query, db) ==
    IF ~PassesGuard(sql_query)
    THEN ExecMessage(FALSE, SELECT_ONLY_MESSAGE)
    ELSE IF db.fail \in {"connect", "execute", "fetchall"}
         THEN ExecMessage(FALSE, ERROR_PREFIX)
    ELSE IF db.rows = <<>>
         THEN ExecMessage(TRUE, NO_RESULT_MESSAGE)
    ELSE IF db.fail = "DataFrame"
         THEN ExecMessage(FALSE, ERROR_PREFIX)
    ELSE ExecFrame(db.columns, db.rows)

execute_select_query(sql_query, db) ==
    IF ~PassesGuard(sql_query)
    THEN ExecMessage(FALSE, SELECT_ONLY_MESSAGE)
    ELSE IF db.fail \in {"connect", "execute", "fetchall"}
         THEN ExecMessage(FALSE, ERROR_PREFIX \o db.error)
    ELSE IF db.rows = <<>>
         THEN ExecMessage(TRUE, NO_RESULT_MESSAGE)
    ELSE IF db.fail = "DataFrame"
         THEN ExecMessage(FALSE, ERROR_PREFIX \o db.error)
    ELSE ExecFrame(db.columns, db.rows)

\* whether the call reaches engine.connect() (line 467)
ExecConnects(sql_query) == PassesGuard(sql_query)

\* whether the call reaches conn.execute(text(sql_query)) (line 468)
ExecSends(sql_query, db) == PassesGuard(sql_query) /\ db.fail # "connect"

\* the database's record of one executor call
NoDbUse == [connections |-> 0, statements |-> <<>>]
DbUse(sql_query, db) ==
    [connections |-> IF ExecConnects(sql_query) THEN 1 ELSE 0,
     statements  |-> IF ExecSends(sql_query, db) THEN <<sql_query>> ELSE <<>>]



(***************************************************************************)
(* classify_intent                                                         *)
(***************************************************************************)
QUERY == <<"q","u","e","r","y">>
SCHEMA_INFO == <<"s","c","h","e","m","a","_","i","n","f","o">>

\* mutant: the fallback of lines 147-148 left out
classify_intent_no_fallback(response) ==
    IF response.err THEN Raised ELSE Returned(response.content)

\* src/web/helpers.py lines 132-152: the reply as it is, or "query" when the
\* reply is not one of the two labels
classify_intent(response) ==
    IF response.err THEN Raised
    ELSE IF response.content \notin {QUERY, SCHEMA_INFO} THEN Returned(QUERY)
    ELSE Returned(response.content)

\* src/scripts/helpers.py lines 83-123: the reply, stripped
scripts_classify_intent(response) ==
    IF response.err \/ response.content = NoneContent THEN Raised
    ELSE Returned(Strip(response.content))

\* the branch both shells take on an intent: intent.lower() against the labels
Route(intent) ==
    IF Lower(intent) = QUERY THEN "query"
    ELSE IF Lower(intent) = SCHEMA_INFO THEN "schema_info"
    ELSE "unknown"

(***************************************************************************)
(* The databases, their schema snapshots, and generate_schema_info         *)
(***************************************************************************)
None == "None"
Databases == {"db1", "db2"}
\* DATABASE_URL of the .env file
DefaultDb == "db1"

\* inspector.get_table_names() of each database
TableNames(d) == IF d = "db1" THEN <<"users">> ELSE <<"orders", "items">>

\* get_database_schema: total_tables and one descriptor per table
get_database_schema(d) ==
    [db |-> d,
     total_tables |-> Len(TableNames(d)),
     tables |-> [i \in 1..Len(TableNames(d)) |->
                    [name |-> TableNames(d)[i],
                     columns |-> <<"id", "name">>,
                     primary_keys |-> <<"id">>,
                     foreign_keys |-> <<>>,
                     indexes |-> <<>>]]]

\* schema_data before the first successful connect (Python None)
NoSchema == [db |-> None, total_tables |-> 0, tables |-> <<>>]

\* str() of a natural number
Digits == <<"0","1","2","3","4","5","6","7","8","9">>
RECURSIVE IntToStr(_)
IntToStr(n) ==
    IF n < Len(Digits) THEN <<Digits[n + 1]>>
    ELSE IntToStr(n \div Len(Digits)) \o <<Digits[(n % Len(Digits)) + 1]>>

SUMMARY_HEAD ==
    <<"D","a","t","a","b","a","s","e"," ","m","e","m","i","l","i","k","i",
      " ">>
SUMMARY_TAIL ==
    <<" ","t","a","b","e","l","."," ","S","i","l","a","k","a","n"," ","a",
      "j","u","k","a","n"," ","p","e","r","t","a","n","y","a","a","n"," ",
      "s","p","e","s","i","f","i","k"," ","t","e","n","t","a","n","g"," ",
      "s","t","r","u","k","t","u","r"," ","d","a","t","a","b","a","s","e",
      ".">>

\* a reply shorter than this is replaced by the summary (line 443)
MIN_INFO_LEN == 10

\* src/web/helpers.py lines 440-448
generate_schema_info(response, schema) ==
    IF response.err \/ response.content = NoneContent THEN Raised
    ELSE LET info == Strip(response.content)
         IN  IF info = <<>> \/ Len(info) < MIN_INFO_LEN
             THEN Returned(SUMMARY_HEAD \o IntToStr(schema.total_tables)
                           \o SUMMARY_TAIL)
             ELSE Returned(info)

\* src/scripts/helpers.py lines 273-275
scripts_generate_schema_info(response, schema) ==
    IF response.err \/ response.content = NoneContent THEN Raised
    ELSE Returned(Strip(response.content))


(***************************************************************************)
(* The replies of the completion endpoint and the questions of the user.   *)
(***************************************************************************)
CallFailed == [err |-> TRUE, content |-> <<>>]
Reply(c) == [err |-> FALSE, content |-> c]
NoReply == [err |-> FALSE, content |-> <<"unused">>]
NoDb == [fail |-> "unused", error |-> <<>>, columns |-> <<>>, rows |-> <<>>]

\* " Schema_Info\n"
PADDED_SCHEMA_INFO ==
    <<" ","S","c","h","e","m","a","_","I","n","f","o","\n">>
QUERY_CAPS == <<"Q","U","E","R","Y">>
MAYBE == <<"m","a","y","b","e">>

ClsResponses ==
    {CallFailed} \cup
    {Reply(c) : c \in {QUERY, SCHEMA_INFO, PADDED_SCHEMA_INFO, QUERY_CAPS,
                       MAYBE, NoneContent}}

GenResponses ==
    {CallFailed} \cup
    {Reply(c) : c \in {SELECT_FROM_T, FENCED_REPLY, DROP_TABLE_USERS,
                       SELECT_THEN_DROP, LONG_S_SELECT_ONE}}

\* "Tabel users: id, name"
LONG_INFO ==
    <<"T","a","b","e","l"," ","u","s","e","r","s",":"," ","i","d",","," ",
      "n","a","m","e">>
SHORT_INFO == <<"1"," ","t","a","b","e","l">>

NarrResponses ==
    {CallFailed} \cup {Reply(c) : c \in {<<>>, SHORT_INFO, LONG_INFO, NoneContent}}

SHOW_USERS ==
    <<"s","h","o","w"," ","u","s","e","r","s">>
EXIT == <<"e","x","i","t">>

\* what the user types: nothing, blanks, the exit word, a question
Questions == {<<>>, <<" ">>, <<"E","x","i","t"," ">>, SHOW_USERS}

NoScript ==
    [on |-> FALSE, question |-> <<>>, cls |-> NoReply, gen |-> NoReply,
     narr |-> NoReply, db |-> NoDb]

Scripts ==
    [on : {TRUE}, question : {SHOW_USERS}, cls : ClsResponses,
     gen : GenResponses, narr : NarrResponses, db : DbResponses]

\* the inputs an action may draw: the scripted one when a script is on
Drawn(field, all) == IF script.on THEN {script[field]} ELSE all

(***************************************************************************)
(* The state of a shell's request.  calls lists, in order, the helpers     *)
(* the request has called.                                                 *)
(***************************************************************************)
Shells == {"web", "cli"}
Active(sh) == program \in {sh, "both"}

NoExec == ExecMessage(FALSE, <<>>)
NoShown == [kind |-> "none", exec |-> NoExec, text |-> <<>>]
Shown(k) == [kind |-> k, exec |-> NoExec, text |-> <<>>]
ShownExec(e) == [kind |-> "query_result", exec |-> e, text |-> <<>>]
ShownInfo(t) == [kind |-> "schema_info", exec |-> NoExec, text |-> t]

NoUsed ==
    [cls |-> NoReply, gen |-> NoReply, narr |-> NoReply, db |-> NoDb,
     schema |-> NoSchema, engine |-> None]

NewReq(pc, q) ==
    [pc |-> pc, question |-> q, intent |-> <<>>, branch |-> "none",
     openai_output |-> <<>>, sql_query |-> <<>>, shown |-> NoShown,
     used |-> NoUsed, dbuse |-> NoDbUse, calls |-> <<>>]

\* the request ends: the shell shows sh and is ready for the next question
Finish(r, sh) == [r EXCEPT !.pc = "idle", !.shown = sh]

\* the local engine and schema_data of main() in src/scripts/simple.py
cli_engine == DefaultDb
cli_schema_data == get_database_schema(DefaultDb)


(***************************************************************************)
(* The web shell, src/web/app.py.  A request is served by one thread and   *)
(* blocks at each completion call and at the database call; the actions    *)
(* are the stretches of index() between those calls.                       *)
(***************************************************************************)
\* connect_database (lines 30-60): the globals are assigned one by one, each
\* as soon as its value exists; failed names the call that raises, or "none"
ConnectStages == {"create_engine", "inspect", "test", "schema", "none"}

connect_database(d, failed) ==
    /\ Active("web")
    /\ engine' = IF failed = "create_engine" THEN engine ELSE d
    /\ inspector' = IF failed \in {"create_engine", "inspect"} THEN inspector ELSE d
    /\ schema_data' = IF failed = "none" THEN get_database_schema(d) ELSE schema_data
    /\ current_db_url' = IF failed = "none" THEN d ELSE current_db_url
    /\ UNCHANGED <<program, script, req, fn_vars>>

\* mutant: the question is not checked for being empty
WebPost_NoEmptyCheck(q) ==
    /\ Active("web")
    /\ req["web"].pc = "idle"
    /\ req' = [req EXCEPT !["web"] =
          IF schema_data = NoSchema
          THEN Finish(NewReq("idle", <<>>), Shown("not_connected"))
          ELSE NewReq("classify", Strip(q))]
    /\ UNCHANGED <<program, script, web_globals, fn_vars>>

\* index(), POST, lines 87-109: the checks before the first completion call
WebPost(q) ==
    /\ Active("web")
    /\ req["web"].pc = "idle"
    /\ req' = [req EXCEPT !["web"] =
          IF schema_data = NoSchema
          THEN Finish(NewReq("idle", <<>>), Shown("not_connected"))
          ELSE IF Strip(q) = <<>>
          THEN Finish(NewReq("idle", <<>>), Shown("empty_question"))
          ELSE NewReq("classify", Strip(q))]
    /\ UNCHANGED <<program, script, web_globals, fn_vars>>

\* lines 111-130 and 141-149: the classification call returns; the branch is
\* chosen, and the handler reads the global schema_data for its prompt
\* (lines 188 and 226) before it waits for its completion call
WebClassify(response) ==
    /\ Active("web")
    /\ req["web"].pc = "classify"
    /\ UNCHANGED <<program, script, web_globals, fn_vars>>
    /\ LET r == req["web"]
           c == classify_intent(response)
           u == [r EXCEPT !.used.cls = response,
                         !.calls = Append(@, "classify_intent")]
       IN  req' = [req EXCEPT !["web"] =
             IF c.raised THEN Finish(u, Shown("error"))
             ELSE LET b == Route(c.value)
                      v == [u EXCEPT !.intent = c.value, !.branch = b,
                                     !.used.schema = schema_data]
                  IN  IF b = "query" THEN [v EXCEPT !.pc = "synthesize"]
                      ELSE IF b = "schema_info" THEN [v EXCEPT !.pc = "narrate"]
                      ELSE Finish([v EXCEPT !.used.schema = NoSchema],
                                  Shown("unknown_intent"))]

\* mutant: a failed synthesis is tried once more
WebSynthesize_Retry(response) ==
    /\ Active("web")
    /\ req["web"].pc = "synthesize"
    /\ UNCHANGED <<program, script, web_globals, fn_vars>>
    /\ LET r == req["web"]
           g == generate_sql_query(response)
           u == [r EXCEPT !.used.gen = response,
                         !.calls = Append(@, "generate_sql_query")]
       IN  IF g.raised
           THEN req' = [req EXCEPT !["web"] = IF Len(r.calls) < 2 THEN u ELSE Finish(u, Shown("query_error"))]
           ELSE \E sql_query \in {clean_sql(g.value)} :
                  LET v == [u EXCEPT !.openai_output = g.value,
                                     !.sql_query = sql_query,
                                     !.used.engine = engine,
                                     !.calls = Append(@, "execute_select_query")]
                  IN  req' = [req EXCEPT !["web"] =
                        IF PassesGuard(sql_query) THEN [v EXCEPT !.pc = "execute"]
                        ELSE Finish(v, ShownExec(execute_select_query(sql_query, NoDb)))]

\* handle_query_intent, lines 188-193 and 216-220: the completion call
\* returns; the text is extracted and cleaned, the global engine is read, and
\* execute_select_query checks its guard (helpers.py 463-464) before it waits
\* for the database
WebSynthesize(response) ==
    /\ Active("web")
    /\ req["web"].pc = "synthesize"
    /\ UNCHANGED <<program, script, web_globals, fn_vars>>
    /\ LET r == req["web"]
           g == generate_sql_query(response)
           u == [r EXCEPT !.used.gen = response,
                         !.calls = Append(@, "generate_sql_query")]
       IN  IF g.raised
           THEN req' = [req EXCEPT !["web"] = Finish(u, Shown("query_error"))]
           ELSE \E sql_query \in {clean_sql(g.value)} :
                  LET v == [u EXCEPT !.openai_output = g.value,
                                     !.sql_query = sql_query,
                                     !.used.engine = engine,
                                     !.calls = Append(@, "execute_select_query")]
                  IN  req' = [req EXCEPT !["web"] =
                        IF PassesGuard(sql_query) THEN [v EXCEPT !.pc = "execute"]
                        ELSE Finish(v, ShownExec(execute_select_query(sql_query, NoDb)))]

\* mutant: the statement runs on whatever the global engine is when the
\* database answers
WebExecute_RereadsEngine(db) ==
    /\ Active("web")
    /\ req["web"].pc = "execute"
    /\ UNCHANGED <<program, script, web_globals, fn_vars>>
    /\ LET r == req["web"]
       IN  req' = [req EXCEPT !["web"] =
             Finish([r EXCEPT !.used.db = db,
                              !.used.engine = engine,
                              !.dbuse = DbUse(r.sql_query, db)],
                    ShownExec(execute_select_query(r.sql_query, db)))]

\* execute_select_query, helpers.py lines 466-478, and app.py lines 195-214:
\* the database answers on the engine read before
WebExecute(db) ==
    /\ Active("web")
    /\ req["web"].pc = "execute"
    /\ UNCHANGED <<program, script, web_globals, fn_vars>>
    /\ LET r == req["web"]
       IN  req' = [req EXCEPT !["web"] =
             Finish([r EXCEPT !.used.db = db,
                              !.dbuse = DbUse(r.sql_query, db)],
                    ShownExec(execute_select_query(r.sql_query, db)))]

\* mutant: the narrator empties the table list of the snapshot it was given
WebNarrate_DropsTables(response) ==
    /\ Active("web")
    /\ req["web"].pc = "narrate"
    /\ schema_data' = [schema_data EXCEPT !.tables = <<>>]
    /\ UNCHANGED <<program, script, engine, inspector, current_db_url, fn_vars>>
    /\ LET r == req["web"]
           n == generate_schema_info(response, r.used.schema)
           u == [r EXCEPT !.used.narr = response,
                         !.calls = Append(@, "generate_schema_info")]
       IN  req' = [req EXCEPT !["web"] =
             IF n.raised THEN Finish(u, Shown("schema_error"))
             ELSE Finish(u, ShownInfo(n.value))]

\* handle_schema_info_intent, lines 222-237: the completion call returns
WebNarrate(response) ==
    /\ Active("web")
    /\ req["web"].pc = "narrate"
    /\ UNCHANGED <<program, script, web_globals, fn_vars>>
    /\ LET r == req["web"]
           n == generate_schema_info(response, r.used.schema)
           u == [r EXCEPT !.used.narr = response,
                         !.calls = Append(@, "generate_schema_info")]
       IN  req' = [req EXCEPT !["web"] =
             IF n.raised THEN Finish(u, Shown("schema_error"))
             ELSE Finish(u, ShownInfo(n.value))]

(***************************************************************************)
(* The command-line shell, src/scripts/simple.py.                          *)
(***************************************************************************)
\* main(), lines 19-28 and 68-73: set-up, fatal when it raises
CliStartup(ok) ==
    /\ Active("cli")
    /\ req["cli"].pc = "start"
    /\ req' = [req EXCEPT !["cli"].pc = IF ok THEN "idle" ELSE "exited"]
    /\ UNCHANGED <<program, script, web_globals, fn_vars>>

\* lines 33-43: read a line; blank lines re-prompt, the exit word leaves
CliInput(q) ==
    /\ Active("cli")
    /\ req["cli"].pc = "idle"
    /\ LET user_input == Strip(q)
       IN  req' = [req EXCEPT !["cli"] =
             IF user_input = <<>> THEN req["cli"]
             ELSE IF Lower(user_input) = EXIT
             THEN [NewReq("exited", <<>>) EXCEPT !.shown = Shown("goodbye")]
             ELSE NewReq("classify", user_input)]
    /\ UNCHANGED <<program, script, web_globals, fn_vars>>

\* mutant: a failed classification is not caught by the loop and ends main()
CliClassify_Escapes(response) ==
    /\ Active("cli")
    /\ req["cli"].pc = "classify"
    /\ UNCHANGED <<program, script, web_globals, fn_vars>>
    /\ LET r == req["cli"]
           c == scripts_classify_intent(response)
           u == [r EXCEPT !.used.cls = response,
                         !.calls = Append(@, "classify_intent")]
       IN  req' = [req EXCEPT !["cli"] =
             IF c.raised THEN [u EXCEPT !.pc = "exited"]
             ELSE LET b == Route(c.value)
                      v == [u EXCEPT !.intent = c.value, !.branch = b,
                                     !.used.schema = cli_schema_data]
                  IN  IF b = "query" THEN [v EXCEPT !.pc = "synthesize"]
                      ELSE IF b = "schema_info" THEN [v EXCEPT !.pc = "narrate"]
                      ELSE Finish([v EXCEPT !.used.schema = NoSchema],
                                  Shown("unknown_intent"))]

\* lines 45-56 and 64-66
CliClassify(response) ==
    /\ Active("cli")
    /\ req["cli"].pc = "classify"
    /\ UNCHANGED <<program, script, web_globals, fn_vars>>
    /\ LET r == req["cli"]
           c == scripts_classify_intent(response)
           u == [r EXCEPT !.used.cls = response,
                         !.calls = Append(@, "classify_intent")]
       IN  req' = [req EXCEPT !["cli"] =
             IF c.raised THEN Finish(u, Shown("error"))
             ELSE LET b == Route(c.value)
                      v == [u EXCEPT !.intent = c.value, !.branch = b,
                                     !.used.schema = cli_schema_data]
                  IN  IF b = "query" THEN [v EXCEPT !.pc = "synthesize"]
                      ELSE IF b = "schema_info" THEN [v EXCEPT !.pc = "narrate"]
                      ELSE Finish([v EXCEPT !.used.schema = NoSchema],
                                  Shown("unknown_intent"))]

\* handle_query_intent, lines 86-97 and 111-112, up to the guard of
\* execute_select_query (helpers.py 290-291)
CliSynthesize(response) ==
    /\ Active("cli")
    /\ req["cli"].pc = "synthesize"
    /\ UNCHANGED <<program, script, web_globals, fn_vars>>
    /\ LET r == req["cli"]
           g == scripts_generate_sql_query(response)
           u == [r EXCEPT !.used.gen = response,
                         !.calls = Append(@, "generate_sql_query")]
       IN  IF g.raised
           THEN req' = [req EXCEPT !["cli"] = Finish(u, Shown("query_error"))]
           ELSE \E sql_query \in {clean_sql(g.value)} :
                  LET v == [u EXCEPT !.openai_output = g.value,
                                     !.sql_query = sql_query,
                                     !.used.engine = cli_engine,
                                     !.calls = Append(@, "execute_select_query")]
                  IN  req' = [req EXCEPT !["cli"] =
                        IF PassesGuard(sql_query) THEN [v EXCEPT !.pc = "execute"]
                        ELSE Finish(v, ShownExec(execute_select_query(sql_query, NoDb)))]

\* execute_select_query, helpers.py lines 293-305, and simple.py lines 99-110
CliExecute(db) ==
    /\ Active("cli")
    /\ req["cli"].pc = "execute"
    /\ UNCHANGED <<program, script, web_globals, fn_vars>>
    /\ LET r == req["cli"]
       IN  req' = [req EXCEPT !["cli"] =
             Finish([r EXCEPT !.used.db = db,
                              !.dbuse = DbUse(r.sql_query, db)],
                    ShownExec(execute_select_query(r.sql_query, db)))]

\* handle_schema_info_intent, lines 124-132
CliNarrate(response) ==
    /\ Active("cli")
    /\ req["cli"].pc = "narrate"
    /\ UNCHANGED <<program, script, web_globals, fn_vars>>
    /\ LET r == req["cli"]
           n == scripts_generate_schema_info(response, r.used.schema)
           u == [r EXCEPT !.used.narr = response,
                         !.calls = Append(@, "generate_schema_info")]
       IN  req' = [req EXCEPT !["cli"] =
             IF n.raised THEN Finish(u, Shown("schema_error"))
             ELSE Finish(u, ShownInfo(n.value))]

(***************************************************************************)
(* Spec: one of the two shells, serving question after question.           *)
(* SpecPair: both shells, fed the same question and the same replies.      *)
(***************************************************************************)
FnOff ==
    /\ fn_in = <<>>
    /\ fn_env = NoReply
    /\ fn_pc = "off"
    /\ fn_out = [raised |-> FALSE, value |-> <<>>]
    /\ fn_db = NoDbUse

ShellsStart ==
    /\ engine = None
    /\ inspector = None
    /\ schema_data = NoSchema
    /\ current_db_url = None
    /\ req = [sh \in Shells |-> NewReq(IF sh = "cli" THEN "start" ELSE "idle", <<>>)]

Init ==
    /\ program \in Shells
    /\ script = NoScript
    /\ ShellsStart
    /\ FnOff

\* both shells up and connected to the database of the .env file (app.py
\* lines 246-249, simple.py lines 21-27)
PairInit ==
    /\ program = "both"
    /\ script \in Scripts
    /\ engine = DefaultDb
    /\ inspector = DefaultDb
    /\ schema_data = get_database_schema(DefaultDb)
    /\ current_db_url = DefaultDb
    /\ req = [sh \in Shells |-> NewReq("idle", <<>>)]
    /\ FnOff

Next ==
    \/ \E d \in Databases, failed \in ConnectStages : connect_database(d, failed)
    \/ \E q \in Drawn("question", Questions) : WebPost(q)
    \/ \E response \in Drawn("cls", ClsResponses) : WebClassify(response)
    \/ \E response \in Drawn("gen", GenResponses) : WebSynthesize(response)
    \/ \E db \in Drawn("db", DbResponses) : WebExecute(db)
    \/ \E response \in Drawn("narr", NarrResponses) : WebNarrate(response)
    \/ \E ok \in BOOLEAN : CliStartup(ok)
    \/ \E q \in Drawn("question", Questions) : CliInput(q)
    \/ \E response \in Drawn("cls", ClsResponses) : CliClassify(response)
    \/ \E response \in Drawn("gen", GenResponses) : CliSynthesize(response)
    \/ \E db \in Drawn("db", DbResponses) : CliExecute(db)
    \/ \E response \in Drawn("narr", NarrResponses) : CliNarrate(response)

Spec == Init /\ [][Next]_vars

\* a request goes on from the completion or database call it waits for
Step ==
    \/ \E response \in Drawn("cls", ClsResponses) : WebClassify(response)
    \/ \E response \in Drawn("gen", GenResponses) : WebSynthesize(response)
    \/ \E db \in Drawn("db", DbResponses) : WebExecute(db)
    \/ \E response \in Drawn("narr", NarrResponses) : WebNarrate(response)
    \/ \E response \in Drawn("cls", ClsResponses) : CliClassify(response)
    \/ \E response \in Drawn("gen", GenResponses) : CliSynthesize(response)
    \/ \E db \in Drawn("db", DbResponses) : CliExecute(db)
    \/ \E response \in Drawn("narr", NarrResponses) : CliNarrate(response)

\* every completion call and every database call returns or fails
CallsReturn == WF_vars(Step)

SpecLive == Init /\ [][Next]_vars /\ CallsReturn

\* the connection is held fixed while the two shells are compared
PairNext ==
    \/ \E q \in Drawn("question", Questions) : WebPost(q)
    \/ \E response \in Drawn("cls", ClsResponses) : WebClassify(response)
    \/ \E response \in Drawn("gen", GenResponses) : WebSynthesize(response)
    \/ \E db \in Drawn("db", DbResponses) : WebExecute(db)
    \/ \E response \in Drawn("narr", NarrResponses) : WebNarrate(response)
    \/ \E q \in Drawn("question", Questions) : CliInput(q)
    \/ \E response \in Drawn("cls", ClsResponses) : CliClassify(response)
    \/ \E response \in Drawn("gen", GenResponses) : CliSynthesize(response)
    \/ \E db \in Drawn("db", DbResponses) : CliExecute(db)
    \/ \E response \in Drawn("narr", NarrResponses) : CliNarrate(response)

SpecPair == PairInit /\ [][PairNext]_vars

(***************************************************************************)
(* SpecFn: the synthesizer and the executor as functions of their input.   *)
(***************************************************************************)
NoOut == [raised |-> FALSE, value |-> <<>>]

FnInit ==
    /\ program = "none"
    /\ script = NoScript
    /\ ShellsStart
    /\ fn_in \in FnInputs
    /\ fn_env = NoReply
    /\ fn_pc = "input"
    /\ fn_out = NoOut
    /\ fn_db = NoDbUse

\* generate_sql_query on the reply fn_in, or on a failed completion call
FnSynthesize ==
    /\ fn_pc = "input"
    /\ \E response \in {CallFailed, Reply(fn_in)} :
          /\ fn_env' = response
          /\ fn_out' = generate_sql_query(response)
    /\ fn_pc' = "synthesized"
    /\ UNCHANGED <<fn_in, fn_db, shell_vars>>

\* execute_select_query on the text fn_in
FnExecute ==
    /\ fn_pc = "input"
    /\ \E db \in DbResponses :
          /\ fn_env' = db
          /\ fn_out' = execute_select_query(fn_in, db)
          /\ fn_db' = DbUse(fn_in, db)
    /\ fn_pc' = "executed"
    /\ UNCHANGED <<fn_in, shell_vars>>

FnNext == FnSynthesize \/ FnExecute

SpecFn == FnInit /\ [][FnNext]_vars


(***************************************************************************)
(* Properties.                                                             *)
(***************************************************************************)
\* the text starts with the six letters of SELECT, compared without regard
\* to case (caseless matching takes the long s for an s)
StartsWithSelectCI(s) ==
    /\ Len(s) >= Len(select_lower)
    /\ \A i \in 1..Len(select_lower) : FoldChar(s[i]) = select_lower[i]

\* SELECT, in any case, occurs somewhere in the text
ContainsSelectCI(s) == \E i \in 1..Len(s) : StartsWithSelectCI(From(s, i))

\* the four outcomes of the executor
IsRejected(e) == ~e.success /\ e.is_str /\ e.text = SELECT_ONLY_MESSAGE
IsFailed(e) == ~e.success /\ e.is_str /\ e.text # SELECT_ONLY_MESSAGE
IsEmpty(e) == e.success /\ e.is_str
IsRows(e) == e.success /\ ~e.is_str

\* C1: the executor rejects every text that does not start with select (in
\* any case) with the SELECT-only message, opening no connection and sending
\* no statement; every statement it sends starts with select.
C1_GuardRejectsNonSelect ==
    fn_pc = "executed" =>
        /\ ~StartsWithSelectCI(fn_in) =>
              /\ IsRejected(fn_out)
              /\ fn_db.connections = 0
              /\ fn_db.statements = <<>>
        /\ \A i \in 1..Len(fn_db.statements) :
              StartsWithSelectCI(fn_db.statements[i])

\* C1 witness: DROP TABLE users was handed to the executor and rejected
C1_Witness ==
    /\ fn_pc = "executed"
    /\ fn_in = DROP_TABLE_USERS
    /\ IsRejected(fn_out)
    /\ fn_db = NoDbUse

\* C5 (as claimed): the text generate_sql_query returns never holds a ';'
\* followed by further statement text.
C5_SingleStatement ==
    (fn_pc = "synthesized" /\ ~fn_out.raised) =>
        \A i \in 1..Len(fn_out.value) :
            fn_out.value[i] = ";" => Strip(From(fn_out.value, i + 1)) = <<>>

\* C6: a reply that contains SELECT (any case) yields a non-empty text that
\* starts with SELECT (any case) and holds no fence marker.
C6_SelectReplyYieldsSelect ==
    (fn_pc = "synthesized" /\ ~fn_env.err /\ ContainsSelectCI(fn_in)) =>
        /\ ~fn_out.raised
        /\ fn_out.value # <<>>
        /\ StartsWithSelectCI(fn_out.value)
        /\ ~Contains(fn_out.value, FENCE)

\* C6 witness: a fenced reply holding SELECTx came back as SELECTx
C6_Witness ==
    /\ fn_pc = "synthesized"
    /\ fn_in = FENCE \o SELECT_UPPER \o <<"x">>
    /\ fn_out = Returned(SELECT_UPPER \o <<"x">>)

HasSelectSpace(t) ==
    \E i \in 1..Len(t) :
        StartsWithSelectCI(From(t, i)) /\ i + 6 <= Len(t) /\ IsSpace(t[i + 6])

SelectSpan(t) ==
    LET starts == {i \in 1..Len(t) : /\ StartsWithSelectCI(From(t, i))
                                     /\ i + 6 <= Len(t)
                                     /\ IsSpace(t[i + 6])}
        first == CHOOSE i \in starts : \A j \in starts : i <= j
        stops == {j \in first..Len(t) : t[j] = ";"}
        last == IF stops = {} THEN Len(t)
                ELSE (CHOOSE j \in stops : \A k \in stops : j <= k) - 1
    IN  SubSeq(t, first, last)

\* C8: when the fence-stripped reply holds SELECT followed by whitespace, the
\* result is that span, trimmed; the fenced reply of the scenario yields
\* exactly SELECT * FROM t.
C8_SpanExtracted ==
    (fn_pc = "synthesized" /\ ~fn_env.err) =>
        /\ HasSelectSpace(clean_sql(Strip(fn_in))) =>
              fn_out = Returned(Strip(SelectSpan(clean_sql(Strip(fn_in)))))
        /\ fn_in = FENCED_REPLY => fn_out = Returned(SELECT_FROM_T)

\* C8 witness: the fenced reply of the scenario was cut to SELECT * FROM t
C8_Witness ==
    /\ fn_pc = "synthesized"
    /\ fn_in = FENCED_REPLY
    /\ HasSelectSpace(clean_sql(Strip(fn_in)))
    /\ fn_out = Returned(SELECT_FROM_T)

\* a request of shell sh has ended and something was shown for it
Done(sh) == req[sh].pc = "idle" /\ req[sh].shown.kind # "none"

\* the classification call of the request of shell sh has been made
Classified(sh) == req[sh].used.cls # NoReply

\* C2: the web classifier yields exactly one of the two labels for every
\* reply, the label query whenever the reply is neither label (an absent
\* reply included); classification fails only when the completion call fails.
C2_WebClassifierFallback ==
    Classified("web") =>
        LET r == req["web"]
        IN  IF r.used.cls.err
            THEN r.shown.kind = "error" /\ r.branch = "none"
            ELSE /\ r.intent \in {QUERY, SCHEMA_INFO}
                 /\ r.used.cls.content \notin {QUERY, SCHEMA_INFO} => r.intent = QUERY
                 /\ r.branch \in {"query", "schema_info"}
                 /\ r.shown.kind # "error"

\* C2 witness: the reply was neither label and the intent became query
C2_Witness ==
    /\ Classified("web")
    /\ req["web"].used.cls = Reply(MAYBE)
    /\ req["web"].intent = QUERY
    /\ req["web"].pc = "synthesize"

\* C3 (as claimed): a reply that equals a label after trimming and
\* case-folding is routed to that label's branch by the web shell.
C3_WebClassifierNormalizes ==
    (Classified("web") /\ ~req["web"].used.cls.err) =>
        LET folded == Lower(Strip(req["web"].used.cls.content))
        IN  /\ folded = SCHEMA_INFO => req["web"].branch = "schema_info"
            /\ folded = QUERY => req["web"].branch = "query"

\* C4 (as claimed): fed the same question, snapshot, database and replies,
\* the two shells take the same branch, submit the same SQL text and show
\* the same outcome.
C4_ShellsInterchangeable ==
    (Done("web") /\ Done("cli") /\ script.cls.content # NoneContent) =>
        /\ req["web"].branch = req["cli"].branch
        /\ req["web"].sql_query = req["cli"].sql_query
        /\ req["web"].shown = req["cli"].shown

\* the query pipeline of shell sh ran to the executor on the reply DROP TABLE users
DropPipelineDone(sh) ==
    /\ Done(sh)
    /\ req[sh].used.gen = Reply(DROP_TABLE_USERS)
    /\ req[sh].shown.kind = "query_result"

\* C9 (as claimed): on the reply DROP TABLE users the query pipeline ends
\* with the executor returning Rejected and no statement executed.
C9_DropIsRejected ==
    \A sh \in Shells :
        DropPipelineDone(sh) =>
            /\ IsRejected(req[sh].shown.exec)
            /\ req[sh].dbuse.statements = <<>>

\* C9 (amended): on the reply DROP TABLE users that text is never sent to
\* the database.  The command-line pipeline ends with Rejected and sends
\* nothing; the web pipeline replaces the reply by the sentinel query, which
\* passes the guard, is the only statement sent, and whose outcome (never
\* Rejected) is what the executor returns.
C9_DropNeverSent ==
    \A sh \in Shells :
        DropPipelineDone(sh) =>
            /\ \A i \in 1..Len(req[sh].dbuse.statements) :
                  req[sh].dbuse.statements[i] # DROP_TABLE_USERS
            /\ sh = "cli" =>
                  /\ IsRejected(req[sh].shown.exec)
                  /\ req[sh].dbuse = NoDbUse
            /\ sh = "web" =>
                  /\ req[sh].sql_query = ERROR_QUERY
                  /\ ~IsRejected(req[sh].shown.exec)
                  /\ req[sh].dbuse.connections = 1
                  /\ req[sh].used.db.fail # "connect" =>
                        req[sh].dbuse.statements = <<ERROR_QUERY>>

\* C9 witness: the web pipeline ran the sentinel query for DROP TABLE users
C9_Witness ==
    /\ DropPipelineDone("web")
    /\ req["web"].dbuse.statements = <<ERROR_QUERY>>
    /\ IsEmpty(req["web"].shown.exec)

\* the database call of the request raises for the statement that was sent
ExecutionRaised(r) ==
    /\ r.used.db # NoDb
    /\ StartsWithSelectCI(r.sql_query)
    /\ \/ r.used.db.fail \in {"connect", "execute", "fetchall"}
       \/ r.used.db.fail = "DataFrame" /\ r.used.db.rows # <<>>

\* C10: an error raised while a SELECT-prefixed statement is executed comes
\* back as Failed, with the driver's text in the message; it does not end
\* the request as an unhandled error, and the shell is ready for the next
\* question.
C10_ExecutionErrorIsFailed ==
    \A sh \in Shells :
        ExecutionRaised(req[sh]) =>
            /\ req[sh].shown.kind = "query_result"
            /\ IsFailed(req[sh].shown.exec)
            /\ Contains(req[sh].shown.exec.text, req[sh].used.db.error)
            /\ req[sh].pc = "idle"

\* C10 witness: the database raised a syntax error and Failed was shown
C10_Witness ==
    \E sh \in Shells :
        /\ ExecutionRaised(req[sh])
        /\ req[sh].used.db.fail = "execute"
        /\ req[sh].shown.exec = ExecMessage(FALSE, ERROR_PREFIX \o SYNTAX_ERROR)
        /\ req[sh].pc = "idle"

\* the executor ran a SELECT-prefixed statement and no call inside it raised
ExecutedCleanly ==
    fn_pc = "executed" /\ PassesGuard(fn_in) /\ fn_env.fail = "none"

\* C11: for a SELECT-prefixed statement that executes without error the
\* executor returns Empty with the no-results message exactly when the
\* database returned no rows, and otherwise Rows with the driver's column
\* names in their order and every fetched row in its order.
C11_EmptyOrAllRows ==
    ExecutedCleanly =>
        /\ (fn_env.rows = <<>>) <=> IsEmpty(fn_out)
        /\ IsEmpty(fn_out) => fn_out.text = NO_RESULT_MESSAGE
        /\ fn_env.rows # <<>> =>
              /\ IsRows(fn_out)
              /\ fn_out.columns = fn_env.columns
              /\ fn_out.rows = fn_env.rows

\* C11 witness: two rows under the columns name, id came back as they were
C11_Witness ==
    /\ ExecutedCleanly
    /\ Len(fn_env.rows) = 2
    /\ fn_out = ExecFrame(<<"name", "id">>, << <<"bob", "2">>, <<"ann", "1">> >>)

\* the narration call of the request of shell sh returned a reply
Narrated(sh) == req[sh].used.narr # NoReply /\ ~req[sh].used.narr.err

\* the one-line summary of a snapshot
Summary(schema) == SUMMARY_HEAD \o IntToStr(schema.total_tables) \o SUMMARY_TAIL

\* C12 (as claimed): for every reply of the model the web narrator returns
\* non-empty text: the summary with the snapshot's total_tables when the
\* trimmed reply is empty or shorter than 10 characters, the trimmed reply
\* otherwise.
C12_NarratorAlwaysReturnsText ==
    (Active("web") /\ Narrated("web")) =>
        LET r == req["web"]
        IN  /\ r.shown.kind = "schema_info"
            /\ r.shown.text # <<>>
            /\ r.used.narr.content # NoneContent =>
                  r.shown.text =
                      IF Len(Strip(r.used.narr.content)) < MIN_INFO_LEN
                      THEN Summary(r.used.schema)
                      ELSE Strip(r.used.narr.content)

\* the helper calls of a request, in order, by the branch it takes
CLASSIFY == <<"classify_intent">>
QueryCalls == {CLASSIFY \o <<"generate_sql_query">>,
               CLASSIFY \o <<"generate_sql_query", "execute_select_query">>}
SchemaInfoCalls == {CLASSIFY \o <<"generate_schema_info">>}

\* the request of shell sh ended on a step that failed
EndedOnFailure(sh) ==
    /\ req[sh].pc = "idle"
    /\ req[sh].shown.kind \in {"error", "query_error", "schema_error"}

\* C13: a request calls classify_intent first and then the helpers of exactly
\* one branch: generate_sql_query and then at most once execute_select_query
\* for the intent query, generate_schema_info alone for the intent
\* schema_info.  No helper is called twice in a request, a failed call is not
\* repeated, and at most one connection and one statement reach the database.
C13_FixedOrderNoRetry ==
    \A sh \in Shells :
        LET r == req[sh]
        IN  /\ r.calls \in {<<>>, CLASSIFY} \cup QueryCalls \cup SchemaInfoCalls
            /\ r.pc \in {"synthesize", "narrate"} => r.calls = CLASSIFY
            /\ r.pc = "synthesize" => r.used.gen = NoReply
            /\ r.pc = "narrate" => r.used.narr = NoReply
            /\ r.pc = "execute" =>
                  /\ r.calls = CLASSIFY \o <<"generate_sql_query", "execute_select_query">>
                  /\ r.used.db = NoDb
            /\ (r.pc = "idle" /\ r.branch = "query") => r.calls \in QueryCalls
            /\ (r.pc = "idle" /\ r.branch = "schema_info") => r.calls \in SchemaInfoCalls
            /\ r.branch \in {"none", "unknown"} => r.calls \in {<<>>, CLASSIFY}
            /\ r.branch # "query" => r.dbuse = NoDbUse
            /\ r.dbuse.connections <= 1 /\ Len(r.dbuse.statements) <= 1
            /\ EndedOnFailure(sh) =>
                  /\ r.calls \in {CLASSIFY} \cup SchemaInfoCalls
                                 \cup {CLASSIFY \o <<"generate_sql_query">>}
                  /\ r.dbuse = NoDbUse

\* C13 witness: a query request whose synthesis failed ended after the two
\* calls
C13_Witness ==
    \E sh \in Shells :
        /\ EndedOnFailure(sh)
        /\ req[sh].used.gen = CallFailed
        /\ req[sh].calls = CLASSIFY \o <<"generate_sql_query">>

\* a question was accepted by shell sh and its request is under way
InFlight(sh) == req[sh].pc \in {"classify", "synthesize", "execute", "narrate"}

\* what a shell shows at the end of an accepted question
Outcomes == {"query_result", "schema_info", "unknown_intent", "error",
             "query_error", "schema_error"}

\* the request of shell sh ended with exactly one outcome shown
Answered(sh) ==
    /\ req[sh].pc = "idle"
    /\ req[sh].shown.kind \in Outcomes
    /\ req[sh].shown.kind = "query_result" <=> req[sh].shown.exec # NoExec
    /\ req[sh].shown.kind # "schema_info" => req[sh].shown.text = <<>>

\* C14: provided every external call returns or fails, every accepted
\* question ends with exactly one outcome shown, whatever the replies and
\* failures; a request that has made a helper call never leaves the shell
\* unable to take the next question.
C14_EveryQuestionAnswered ==
    /\ \A sh \in Shells : InFlight(sh) ~> Answered(sh)
    /\ [](\A sh \in Shells :
            /\ req[sh].calls # <<>> => (InFlight(sh) \/ Answered(sh))
            /\ req[sh].pc = "exited" => req[sh].calls = <<>>)

\* C14 witness: the classification call failed, an error was shown and the
\* shell is ready for the next question
C14_Witness ==
    \E sh \in Shells :
        /\ Answered(sh)
        /\ req[sh].used.cls = CallFailed
        /\ req[sh].shown.kind = "error"

\* the handler of the request of shell sh holds a snapshot
HoldsSnapshot(sh) == req[sh].pc \in {"synthesize", "execute", "narrate"}

\* C15: no step of a request changes the snapshot: the global schema_data
\* changes only in a successful connect_database, which replaces it by the
\* whole snapshot of the database connected to, and the snapshot a handler
\* was given stays as it was until the request ends.
C15_SnapshotOnlyReplaced ==
    [][/\ schema_data' # schema_data =>
             \E d \in Databases :
                 /\ connect_database(d, "none")
                 /\ schema_data' = get_database_schema(d)
       /\ \A sh \in Shells :
             HoldsSnapshot(sh) =>
                 /\ req[sh].used.schema \in {get_database_schema(d) : d \in Databases}
                 /\ req'[sh].used.schema = req[sh].used.schema]_vars

\* C15 witness: a schema_info request of the web shell ended with the
\* snapshot of db2 as it was loaded, in the global and in the request
C15_Witness ==
    /\ Done("web")
    /\ req["web"].shown.kind = "schema_info"
    /\ req["web"].used.schema = get_database_schema("db2")
    /\ schema_data = get_database_schema("db2")

\* the web request sent a statement to the database
WebStatementSent ==
    /\ Done("web")
    /\ req["web"].shown.kind = "query_result"
    /\ req["web"].dbuse.statements = <<req["web"].sql_query>>

\* C16: a query request reads the two globals at two moments: the snapshot
\* when the synthesis is called, the engine when the synthesis has returned.
\* Whatever connect_database did in between, the statement is handed to the
\* engine that is the global at the second moment, and the snapshot the SQL
\* was synthesized from and the engine it runs on stay those two until the
\* request ends.  (The interleaving itself is the witness.)
C16_EngineReadAfterSynthesis ==
    [][LET r == req["web"]
           n == req'["web"]
       IN  /\ (r.pc = "classify" /\ n.pc = "synthesize") =>
                 n.used.schema = schema_data
           /\ (r.pc = "synthesize" /\ n.pc = "execute") =>
                 /\ n.used.engine = engine
                 /\ n.used.schema = r.used.schema
           /\ (r.pc = "execute" /\ n.pc = "idle") =>
                 /\ n.used.engine = r.used.engine
                 /\ n.used.schema = r.used.schema
                 /\ n.sql_query = r.sql_query]_vars

\* C16 witness: db1 was connected when the synthesis was called, a connect to
\* db2 completed before it returned, and the statement synthesized from the
\* snapshot of db1 was sent to the engine of db2
C16_Witness ==
    /\ WebStatementSent
    /\ req["web"].used.schema = get_database_schema("db1")
    /\ req["web"].used.engine = "db2"
    /\ engine = "db2"
    /\ inspector = "db2"
    /\ schema_data = get_database_schema("db2")
    /\ current_db_url = "db2"

\* C17 (as claimed): the four globals of the web shell always belong to one
\* connection: none is set before the first successful connect, and after
\* any connect attempt the engine, the inspector and the url are those of
\* the database the snapshot was built from.
C17_GlobalsBelongTogether ==
    /\ inspector = engine
    /\ current_db_url = engine
    /\ schema_data = IF engine = None THEN NoSchema ELSE get_database_schema(engine)

\* the synthesis of the web request returned a text
WebSynthesized ==
    /\ Active("web")
    /\ req["web"].used.gen # NoReply
    /\ ~req["web"].used.gen.err

\* C18 (as claimed): whatever the model replies, the text the web pipeline
\* hands to execute_select_query starts with select, compared without regard
\* to case, so the guard lets it through and Rejected is never the outcome.
C18_WebNeverRejected ==
    WebSynthesized =>
        /\ StartsWithSelectCI(req["web"].sql_query)
        /\ PassesGuard(req["web"].sql_query)
        /\ ~IsRejected(req["web"].shown.exec)

\* the request of shell sh was turned away before any call
TurnedAway(sh) == req[sh].shown.kind \in {"not_connected", "empty_question"}

\* C19: a request makes a helper call or reaches the database only for a
\* question that is non-empty after trimming and, in the web shell, only when
\* a snapshot was loaded; a POST that is turned away ends at once with its
\* error message and no call made.
C19_NoCallsWithoutQuestion ==
    \A sh \in Shells :
        LET r == req[sh]
        IN  /\ (InFlight(sh) \/ r.calls # <<>> \/ r.dbuse # NoDbUse) =>
                  /\ r.question # <<>>
                  /\ Strip(r.question) = r.question
                  /\ sh = "web" => schema_data # NoSchema
            /\ TurnedAway(sh) =>
                  /\ r.pc = "idle"
                  /\ r.calls = <<>>
                  /\ r.used = NoUsed
                  /\ r.dbuse = NoDbUse

\* C19 witness: connected, the web shell turned an empty question away
C19_Witness ==
    /\ schema_data # NoSchema
    /\ req["web"].shown.kind = "empty_question"
    /\ req["web"].calls = <<>>
    /\ req["web"].pc = "idle"

\* the lines of the fence-stripped text t whose trimmed content starts with SELECT
SelectLines(t) ==
    {i \in 1..Len(SplitLines(t)) : StartsWithSelectCI(Strip(SplitLines(t)[i]))}

\* the case of the line-by-line fallback: no SELECT followed by whitespace
\* anywhere in t, t does not start with SELECT, and some line does
LineFallback(t) ==
    /\ ~HasSelectSpace(t)
    /\ ~StartsWithSelectCI(t)
    /\ SelectLines(t) # {}

\* C20: in the case of the line-by-line fallback the repeated span search
\* finds nothing from the first SELECT line onward, and the result is exactly
\* that line, trimmed, a trailing ';' included.
C20_FallbackReturnsFirstLine ==
    (fn_pc = "synthesized" /\ ~fn_env.err /\ LineFallback(clean_sql(Strip(fn_in)))) =>
        LET t == clean_sql(Strip(fn_in))
            first == CHOOSE i \in SelectLines(t) : \A j \in SelectLines(t) : i <= j
        IN  /\ ~select_pattern_search(JoinFrom(SplitLines(t), first)).found
            /\ fn_out = Returned(Strip(SplitLines(t)[first]))

\* C20 witness: of the three lines x, SELECT*; and x the second came back
C20_Witness ==
    /\ fn_pc = "synthesized"
    /\ fn_in = SELECT_ON_SECOND_LINE
    /\ LineFallback(clean_sql(Strip(fn_in)))
    /\ fn_out = Returned(<<"S", "E", "L", "E", "C", "T", "*", ";">>)

=============================================================================
